---- MODULE Spec2Model ----
(***************************************************************************)
(* A model of `paasta spark-run` (paasta_tools/cli/cmds/spark_run.py): the *)
(* launch pipeline of one invocation (work-dir validation, configuration   *)
(* loading, image resolution, configuration synthesis, command assembly,   *)
(* dry-run print or process replacement), run by two concurrent            *)
(* invocations on one host, and the pure functions it is built from.       *)
(*                                                                         *)
(* Python strings are TLA+ strings; TLC evaluates Len, \o, SubSeq, Head    *)
(* and Tail on them character by character.                                *)
(***************************************************************************)
EXTENDS Integers, Sequences, FiniteSets, TLC

\* Python's None where a string is expected, and where an int is expected:
\* an optional int is << >> (None) or <<n>>.
None == "<None>"
NoneInt == << >>
Some(n) == <<n>>

(***************************************************************************)
(* String helpers: the Python string operations the code uses.             *)
(***************************************************************************)

\* s[i] (1-based), a one-character string.
CharAt(s, i) == SubSeq(s, i, i)

\* The string operations below are written without recursion over the
\* characters, so that their evaluation depth does not grow with the length
\* of the configuration string.

\* The indices at which the character c occurs in s.
Occurrences(s, c) == {i \in 1..Len(s) : CharAt(s, i) = c}

\* The least index >= from at which the character c occurs in s, or 0.
Find(s, c, from) ==
    LET hits == {i \in Occurrences(s, c) : i >= from} IN
    IF hits = {} THEN 0 ELSE CHOOSE i \in hits : \A j \in hits : i <= j

\* str.split(c) for a one-character separator: always at least one
\* component; component n lies between separators n - 1 and n.
Split(s, c) ==
    LET seps == Occurrences(s, c)
        Sep(n) == IF n = 0 THEN 0
                  ELSE IF n > Cardinality(seps) THEN Len(s) + 1
                  ELSE CHOOSE p \in seps : Cardinality({q \in seps : q < p}) = n - 1
    IN
    [n \in 1..(Cardinality(seps) + 1) |-> SubSeq(s, Sep(n - 1) + 1, Sep(n) - 1)]

\* sep.join(list), by halves.
RECURSIVE JoinRange(_, _, _, _)
JoinRange(list, lo, hi, sep) ==
    IF lo > hi THEN ""
    ELSE IF lo = hi THEN list[lo]
    ELSE LET mid == (lo + hi) \div 2 IN
         JoinRange(list, lo, mid, sep) \o sep \o JoinRange(list, mid + 1, hi, sep)

Join(list, sep) == JoinRange(list, 1, Len(list), sep)

\* str.startswith(p)
StartsWith(s, p) == Len(s) >= Len(p) /\ SubSeq(s, 1, Len(p)) = p

\* str.lower() on the letters that occur in volume modes.
LowerChar(c) ==
    CASE c = "R" -> "r"
      [] c = "W" -> "w"
      [] c = "O" -> "o"
      [] OTHER -> c

RECURSIVE Lower(_)
Lower(s) == IF s = "" THEN "" ELSE LowerChar(Head(s)) \o Lower(Tail(s))

\* '%d' % n
Digit(d) == CharAt("0123456789", d + 1)

RECURSIVE FormatNat(_)
FormatNat(n) == IF n < 10 THEN Digit(n) ELSE FormatNat(n \div 10) \o Digit(n % 10)

FormatD(n) == IF n < 0 THEN "-" \o FormatNat(0 - n) ELSE FormatNat(n)

\* os.path.isabs(d) on a POSIX host.
isabs(d) == Len(d) > 0 /\ Head(d) = "/"

(***************************************************************************)
(* Program constants and the host environment.                             *)
(***************************************************************************)

DEFAULT_SPARK_DOCKER_IMAGE_PREFIX == "paasta-spark-run"
DEFAULT_SPARK_DOCKER_REGISTRY == "docker-dev.yelpcorp.com"
DEFAULT_SPARK_MESOS_SECRET_FILE == "/nail/etc/paasta_spark_secret"

\* paasta_tools.mesos_tools.MESOS_MASTER_PORT, "the fixed master port".
MESOS_MASTER_PORT == 5050

\* get_username(), os.geteuid(), os.getegid() and socket.getfqdn() of the
\* invoking user and host: both invocations run as the same user on one host.
USERNAME == "bob"
EUID == 1000
EGID == 100
FQDN == "dev1.example.com"

\* Python truthiness of an optional str and of an optional int argument.
Truthy(v) == v # None /\ v # ""
TruthyInt(o) == o # NoneInt /\ o[1] # 0

(***************************************************************************)
(* validate_work_dir: None when the string passes, else the exit status    *)
(* and the message printed to standard error.                              *)
(***************************************************************************)

RECURSIVE FirstNonAbs(_)
FirstNonAbs(dirs) ==
    IF Len(dirs) = 0 THEN None
    ELSE IF ~isabs(Head(dirs)) THEN Head(dirs)
    ELSE FirstNonAbs(Tail(dirs))

validate_work_dir_arity_skipped(s) ==
    LET dirs == Split(s, ":") IN
    IF FirstNonAbs(dirs) # None
    THEN [exit |-> Some(1), stderr |-> FirstNonAbs(dirs) \o " is not an absolute path"]
    ELSE [exit |-> NoneInt, stderr |-> ""]

validate_work_dir(s) ==
    LET dirs == Split(s, ":") IN
    IF Len(dirs) # 2
    THEN [exit |-> Some(1),
          stderr |-> "work-dir " \o s \o " is not in format local_abs_dir:container_abs_dir"]
    ELSE IF FirstNonAbs(dirs) # None
    THEN [exit |-> Some(1), stderr |-> FirstNonAbs(dirs) \o " is not an absolute path"]
    ELSE [exit |-> NoneInt, stderr |-> ""]

(***************************************************************************)
(* get_spark_conf_str: the entries in emission order, then the join.       *)
(* leader is the result of find_mesos_leader(cluster_fqdn); mesos_secret   *)
(* is args.mesos_secret when given, else the content of the secret file.   *)
(***************************************************************************)

ConfIdentity(args, container_name, spark_ui_port, leader) ==
    << "--conf spark.app.name=" \o container_name,
       "--conf spark.ui.port=" \o FormatD(spark_ui_port),
       "--conf spark.master=mesos://" \o leader \o ":" \o FormatD(MESOS_MASTER_PORT) >>

ConfSizing(args) ==
    << "--conf spark.cores.max=" \o FormatD(args.max_cores),
       "--conf spark.executor.memory=" \o FormatD(args.executor_memory) \o "g",
       "--conf spark.executor.cores=" \o FormatD(args.executor_cores) >>

ConfDriver(args) ==
    (IF TruthyInt(args.driver_max_result_size)
     THEN << "--conf spark.driver.maxResultSize=" \o FormatD(args.driver_max_result_size[1]) \o "g" >>
     ELSE << >>)
    \o
    (IF TruthyInt(args.driver_memory)
     THEN << "--conf spark.driver.memory=" \o FormatD(args.driver_memory[1]) \o "g" >>
     ELSE << >>)
    \o
    (IF TruthyInt(args.driver_cores)
     THEN << "--conf spark.driver.cores=" \o FormatD(args.driver_cores[1]) >>
     ELSE << >>)

ConfImage(args, docker_img) ==
    << "--conf spark.mesos.executor.docker.image=" \o docker_img >>
    \o
    (IF ~args.build /\ ~Truthy(args.image)
     THEN << "--conf spark.mesos.uris=file:///root/.dockercfg" >>
     ELSE << >>)
    \o
    (IF Truthy(args.jars)
     THEN << "--conf spark.jars=" \o args.jars >>
     ELSE << >>)

ConfAuth_swapped(args, mesos_secret) ==
    << "--conf spark.mesos.secret=" \o mesos_secret,
       "--conf spark.mesos.principal=" \o args.mesos_principal >>

ConfAuth(args, mesos_secret) ==
    << "--conf spark.mesos.principal=" \o args.mesos_principal,
       "--conf spark.mesos.secret=" \o mesos_secret >>

ConfTail_semicolon_joined(args, volumes) ==
    << "--conf spark.driver.extraJavaOptions=-Dderby.system.home=/tmp/derby",
       "--conf spark.mesos.constraints=pool:" \o args.pool,
       "--conf spark.mesos.executor.docker.volumes=" \o Join(volumes, ";") >>

ConfTail(args, volumes) ==
    << "--conf spark.driver.extraJavaOptions=-Dderby.system.home=/tmp/derby",
       "--conf spark.mesos.constraints=pool:" \o args.pool,
       "--conf spark.mesos.executor.docker.volumes=" \o Join(volumes, ",") >>

spark_conf(args, container_name, spark_ui_port, docker_img, volumes, leader, mesos_secret) ==
    ConfIdentity(args, container_name, spark_ui_port, leader)
    \o ConfSizing(args)
    \o ConfDriver(args)
    \o ConfImage(args, docker_img)
    \o ConfAuth(args, mesos_secret)
    \o ConfTail(args, volumes)

get_spark_conf_str(args, container_name, spark_ui_port, docker_img, volumes, leader, mesos_secret) ==
    Join(spark_conf(args, container_name, spark_ui_port, docker_img, volumes,
                    leader, mesos_secret), " ")

\* The whole function: secret_file is the content of the default secret
\* file, or "IOError" when it cannot be read; the file is read only when
\* --mesos-secret is not given, and the read failing is sys.exit(1).
reads_secret_file(args) == ~Truthy(args.mesos_secret)

get_spark_conf_str_or_exit(args, container_name, spark_ui_port, docker_img, volumes, leader, secret_file) ==
    IF reads_secret_file(args) /\ secret_file = "IOError"
    THEN [exit |-> Some(1), value |-> None]
    ELSE [exit |-> NoneInt,
          value |-> get_spark_conf_str(args, container_name, spark_ui_port,
                        docker_img, volumes, leader,
                        IF reads_secret_file(args) THEN secret_file
                        ELSE args.mesos_secret)]

(***************************************************************************)
(* The command rewrite of configure_and_run_docker_container.              *)
(***************************************************************************)

rewrite_docker_cmd_prefix_match(docker_cmd, spark_conf_str, work_dir) ==
    IF docker_cmd = "jupyter"
    THEN "jupyter notebook -y --ip=" \o FQDN \o " --notebook-dir=" \o Split(work_dir, ":")[2]
    ELSE IF StartsWith(docker_cmd, "pyspark") \/ StartsWith(docker_cmd, "spark-shell")
    THEN docker_cmd \o " " \o spark_conf_str
    ELSE IF StartsWith(docker_cmd, "spark-submit")
    THEN "spark-submit " \o spark_conf_str
         \o SubSeq(docker_cmd, Len("spark-submit") + 1, Len(docker_cmd))
    ELSE docker_cmd

rewrite_docker_cmd(docker_cmd, spark_conf_str, work_dir) ==
    IF docker_cmd = "jupyter"
    THEN "jupyter notebook -y --ip=" \o FQDN \o " --notebook-dir=" \o Split(work_dir, ":")[2]
    ELSE IF docker_cmd \in {"pyspark", "spark-shell"}
    THEN docker_cmd \o " " \o spark_conf_str
    ELSE IF StartsWith(docker_cmd, "spark-submit")
    THEN "spark-submit " \o spark_conf_str
         \o SubSeq(docker_cmd, Len("spark-submit") + 1, Len(docker_cmd))
    ELSE docker_cmd

(***************************************************************************)
(* Environment dictionaries: insertion-ordered sequences of <<key, value>>.*)
(***************************************************************************)

HasKey(d, k) == \E n \in 1..Len(d) : d[n][1] = k

\* d[k] = v: an existing key keeps its position.
DictSet(d, k, v) ==
    IF HasKey(d, k)
    THEN [n \in 1..Len(d) |-> IF d[n][1] = k THEN <<k, v>> ELSE d[n]]
    ELSE Append(d, <<k, v>>)

\* d.update(u)
RECURSIVE DictUpdate(_, _)
DictUpdate(d, u) ==
    IF Len(u) = 0 THEN d
    ELSE DictUpdate(DictSet(d, Head(u)[1], Head(u)[2]), Tail(u))

get_spark_env(args, spark_conf_str, creds) ==
    << <<"AWS_ACCESS_KEY_ID", creds.access_key>>,
       <<"AWS_SECRET_ACCESS_KEY", creds.secret_key>>,
       <<"SPARK_USER", "root">>,
       <<"SPARK_OPTS", spark_conf_str>> >>
    \o
    (IF args.cmd = "jupyter"
     THEN << <<"JUPYTER_RUNTIME_DIR", Split(args.work_dir, ":")[2] \o "/.jupyter">>,
             <<"JUPYTER_DATA_DIR", Split(args.work_dir, ":")[2] \o "/.jupyter">> >>
     ELSE << >>)

(***************************************************************************)
(* get_docker_run_cmd: the argument vector of the container invocation.    *)
(***************************************************************************)

RECURSIVE EnvFlags(_)
EnvFlags(env) ==
    IF Len(env) = 0 THEN << >>
    ELSE << "--env", Head(env)[1] \o "=" \o Head(env)[2] >> \o EnvFlags(Tail(env))

VolumeFlags(volumes) == [n \in 1..Len(volumes) |-> "--volume=" \o volumes[n]]

get_docker_run_cmd(container_name, volumes, env, docker_img, docker_cmd) ==
    << "paasta_docker_wrapper", "run", "--rm", "--net=host",
       "--interactive=true", "--tty=true",
       "--user=" \o FormatD(EUID) \o ":" \o FormatD(EGID),
       "--name=" \o container_name >>
    \o EnvFlags(env)
    \o VolumeFlags(volumes)
    \o << docker_img >>
    \o << "sh", "-c", docker_cmd >>

(***************************************************************************)
(* json.dumps of a list of strings, and json.loads of such a document.     *)
(***************************************************************************)

JsonEscapeChar(c) ==
    CASE c = "\"" -> "\\\""
      [] c = "\\" -> "\\\\"
      [] c = "\n" -> "\\n"
      [] OTHER -> c

\* Escaping walks the string by halves, so that the evaluation depth stays
\* logarithmic in the length of the configuration string.
RECURSIVE JsonEscapeRange(_, _, _)
JsonEscapeRange(s, lo, hi) ==
    IF lo > hi THEN ""
    ELSE IF lo = hi THEN JsonEscapeChar(CharAt(s, lo))
    ELSE LET mid == (lo + hi) \div 2 IN
         JsonEscapeRange(s, lo, mid) \o JsonEscapeRange(s, mid + 1, hi)

JsonEscape(s) == JsonEscapeRange(s, 1, Len(s))

JsonString(s) == "\"" \o JsonEscape(s) \o "\""

json_dumps(list) ==
    "[" \o Join([n \in 1..Len(list) |-> JsonString(list[n])], ", ") \o "]"

\* The number of consecutive backslashes that end right before index i.
RECURSIVE BackslashRun(_, _)
BackslashRun(doc, i) ==
    IF i > 1 /\ CharAt(doc, i - 1) = "\\" THEN 1 + BackslashRun(doc, i - 1) ELSE 0

\* The character at i is escaped when an odd run of backslashes precedes it.
JsonEscaped(doc, i) == BackslashRun(doc, i) % 2 = 1

\* The quotes that open or close a string literal, in document order.
JsonQuotes(doc) ==
    {i \in 1..Len(doc) : CharAt(doc, i) = "\"" /\ ~JsonEscaped(doc, i)}

JsonNthQuote(doc, k) ==
    LET Q == JsonQuotes(doc) IN
    CHOOSE q \in Q : Cardinality({r \in Q : r < q}) = k - 1

JsonUnescapeChar(c) == IF c = "n" THEN "\n" ELSE c

RECURSIVE JsonUnescapeRange(_, _, _)
JsonUnescapeRange(doc, lo, hi) ==
    IF lo > hi THEN ""
    ELSE IF lo = hi
    THEN IF JsonEscaped(doc, lo) THEN JsonUnescapeChar(CharAt(doc, lo))
         ELSE IF CharAt(doc, lo) = "\\" THEN ""
         ELSE CharAt(doc, lo)
    ELSE LET mid == (lo + hi) \div 2 IN
         JsonUnescapeRange(doc, lo, mid) \o JsonUnescapeRange(doc, mid + 1, hi)

\* json.loads of an array of string literals.
json_loads(doc) ==
    [k \in 1..(Cardinality(JsonQuotes(doc)) \div 2) |->
        JsonUnescapeRange(doc, JsonNthQuote(doc, 2 * k - 1) + 1,
                          JsonNthQuote(doc, 2 * k) - 1)]

(***************************************************************************)
(* The launch pipeline: paasta_spark_run. Spec launches one invocation;     *)
(* SpecConcurrent launches two on the same host.                           *)
(***************************************************************************)

VARIABLES
    args,            \* args of each invocation (the argparse namespace)
    pc,              \* where each invocation stands
    exit_status,     \* NoneInt while running, else Some(returned status)
    calls,           \* the external calls each invocation has made, in order
    stderr,          \* the messages each invocation printed to standard error
    warned,          \* host paths each invocation printed a warning for
    system_volumes,  \* system_paasta_config.get_volumes()
    docker_url,      \* the resolved image
    volumes,         \* the volume list of configure_and_run_docker_container
    spark_ui_port,   \* the port pick_random_port returned
    container_name,
    spark_conf_str,
    docker_cmd,
    environment,
    printed,         \* what dry-run printed on standard output
    execed,          \* what os.execlp was called with
    host_paths,      \* the paths that exist on the launching host
    reserved_ports,  \* the ports reserved on the launching host
    fn_in,           \* input of a pure function under test
    fn_out           \* << >> until it is applied, then << its result >>

vars == << args, pc, exit_status, calls, stderr, warned, system_volumes, docker_url,
           volumes, spark_ui_port, container_name, spark_conf_str, docker_cmd,
           environment, printed, execed, host_paths, reserved_ports,
           fn_in, fn_out >>

\* The invocations on the host; one that is not launched stays "not_started".
Invocations == {"inv1", "inv2"}

\* The ports the reservation can hand out.
FirstPort == 33000
NumPorts == 2
Ports == FirstPort..(FirstPort + NumPorts - 1)

\* argparse defaults (add_subparser); cluster is required.
DefaultArgs ==
    [ service |-> "spark", instance |-> "client", cluster |-> "norcal-devc",
      build |-> FALSE, image |-> None, jars |-> None, pool |-> "default",
      work_dir |-> "/a:/spark_driver", cmd |-> "pyspark", dry_run |-> FALSE,
      mesos_principal |-> "spark", mesos_secret |-> None,
      executor_memory |-> 4, executor_cores |-> 2, max_cores |-> 4,
      driver_max_result_size |-> NoneInt, driver_memory |-> NoneInt,
      driver_cores |-> NoneInt ]

WorkDirs == {"/a:/b", "a:b", "/a:/b:/c", "/a:b"}

\* --build and --image are a mutually exclusive group.
ImageModes == { <<TRUE, None>>, <<FALSE, "img:1">>, <<FALSE, None>> }

Cmds == {None, "pyspark", "jupyter", "spark-submit myjob.py --foo", "echo \"hi\""}

PipelineArgs ==
    { [DefaultArgs EXCEPT !.work_dir = w, !.build = m[1], !.image = m[2],
                          !.cmd = c, !.dry_run = d] :
        w \in WorkDirs, m \in ImageModes, c \in Cmds, d \in BOOLEAN }

\* The requests of two concurrent invocations: well-formed, same service.
ConcurrentArgs ==
    { [DefaultArgs EXCEPT !.work_dir = "/a:/b", !.build = m[1], !.image = m[2],
                          !.dry_run = d] :
        m \in ImageModes, d \in BOOLEAN }

\* Declared volumes: SystemPaastaConfig.get_volumes() and the extra volumes
\* the instance declares; instance_config.get_volumes merges them.
SystemVolumes ==
    << [hostPath |-> "/nail/srv", containerPath |-> "/nail/srv", mode |-> "RO"] >>
InstanceVolumes ==
    << [hostPath |-> "/nail/tmp", containerPath |-> "/tmp", mode |-> "RW"] >>
get_volumes(system) == system \o InstanceVolumes

\* Host paths that may or may not exist; the identity files always do.
OptionalPaths == {"/a", "/nail/srv", "/nail/tmp"}
IdentityPaths == {"/etc/passwd", "/etc/group"}

\* instance_config.get_cmd(), get_docker_url(), get_env_dictionary().
InstanceCmds == {None, "spark-shell"}
DeployedImages == {"docker-paasta.yelpcorp.com:443/services-spark:paasta-abc"}
InstanceEnv == << <<"PAASTA_SERVICE", "spark">>, <<"SPARK_USER", "nobody">> >>

\* What the collaborators can answer.
MesosLeaders == {"10.0.0.1"}
SecretFileContents == {"filesecret\n"}
Credentials == [access_key |-> "AKIA", secret_key |-> "sk"]
\* Exit codes of an external command: success, failure, killed on timeout.
Retcodes == {0, 1, -9}

\* The state in which the invocations of `launched` enter paasta_spark_run.
InitLaunched(launched, requests, filesystems) ==
    /\ args \in [Invocations -> requests]
    /\ \A i \in Invocations \ launched : args[i] = DefaultArgs
    /\ pc = [i \in Invocations |-> IF i \in launched THEN "start" ELSE "not_started"]
    /\ exit_status = [i \in Invocations |-> NoneInt]
    /\ calls = [i \in Invocations |-> << >>]
    /\ stderr = [i \in Invocations |-> << >>]
    /\ warned = [i \in Invocations |-> << >>]
    /\ system_volumes = [i \in Invocations |-> << >>]
    /\ docker_url = [i \in Invocations |-> None]
    /\ volumes = [i \in Invocations |-> << >>]
    /\ spark_ui_port = [i \in Invocations |-> NoneInt]
    /\ container_name = [i \in Invocations |-> None]
    /\ spark_conf_str = [i \in Invocations |-> None]
    /\ docker_cmd = [i \in Invocations |-> None]
    /\ environment = [i \in Invocations |-> << >>]
    /\ printed = [i \in Invocations |-> None]
    /\ execed = [i \in Invocations |-> << >>]
    /\ host_paths \in filesystems
    /\ reserved_ports = {}

Filesystems == {IdentityPaths \cup S : S \in SUBSET OptionalPaths}

Init ==
    /\ InitLaunched({"inv1"}, PipelineArgs \cup {DefaultArgs}, Filesystems)
    /\ fn_in = None
    /\ fn_out = << >>

InitConcurrent ==
    /\ InitLaunched(Invocations, ConcurrentArgs, {IdentityPaths \cup OptionalPaths})
    /\ fn_in = None
    /\ fn_out = << >>

\* return n / sys.exit(n)
Return(i, n) ==
    /\ pc' = [pc EXCEPT ![i] = "exited"]
    /\ exit_status' = [exit_status EXCEPT ![i] = Some(n)]

Goto(i, label) ==
    /\ pc' = [pc EXCEPT ![i] = label]
    /\ UNCHANGED exit_status

\* paasta_print(msg, file=sys.stderr)
Stderr(i, msg) == stderr' = [stderr EXCEPT ![i] = Append(@, msg)]

\* An external call and the exit code it returned (0 when it returns none).
CallRet(i, name, retcode) ==
    calls' = [calls EXCEPT ![i] = Append(@, [name |-> name, retcode |-> retcode])]
Call(i, name) == CallRet(i, name, 0)

\* The reservation of the UI port ends with the process that holds it.
release_port(reserved, i) == reserved \ {spark_ui_port[i][1]}
ReturnReleasing(i, n) ==
    /\ Return(i, n)
    /\ reserved_ports' = release_port(reserved_ports, i)

\* paasta_spark_run, line 447.
ValidateWorkDir(i) ==
    /\ pc[i] = "start"
    /\ LET r == validate_work_dir(args[i].work_dir) IN
       IF r.exit # NoneInt THEN Return(i, r.exit[1]) /\ Stderr(i, r.stderr)
       ELSE Goto(i, "load_system_paasta_config") /\ UNCHANGED stderr
    /\ UNCHANGED << args, calls, warned, system_volumes, docker_url, volumes,
                    spark_ui_port, container_name, spark_conf_str, docker_cmd,
                    environment, printed, execed, host_paths, reserved_ports,
                    fn_in, fn_out >>

\* paasta_spark_run, lines 449-460: a missing system configuration is
\* replaced by one that declares no volumes.
LoadSystemPaastaConfig(i) ==
    /\ pc[i] = "load_system_paasta_config"
    /\ \E configured \in BOOLEAN :
         system_volumes' = [system_volumes EXCEPT ![i] =
                               IF configured THEN SystemVolumes ELSE << >>]
    /\ Call(i, "load_system_paasta_config")
    /\ Goto(i, "get_instance_config")
    /\ UNCHANGED stderr
    /\ UNCHANGED << args, warned, docker_url, volumes,
                    spark_ui_port, container_name, spark_conf_str, docker_cmd,
                    environment, printed, execed, host_paths, reserved_ports,
                    fn_in, fn_out >>

\* paasta_spark_run, lines 463-487.
GetInstanceConfig(i) ==
    /\ pc[i] = "get_instance_config"
    /\ Call(i, "get_instance_config")
    /\ \E outcome \in {"ok", "NoConfigurationForServiceError", "NoDeploymentsAvailable"} :
         /\ outcome = "NoDeploymentsAvailable" =>
               (args[i].build = FALSE /\ args[i].image = None)   \* load_deployments
         /\ IF outcome = "ok" THEN Goto(i, "resolve_image") /\ UNCHANGED stderr
            ELSE Return(i, 1) /\ Stderr(i, outcome)
    /\ UNCHANGED << args, warned, system_volumes, docker_url, volumes,
                    spark_ui_port, container_name, spark_conf_str, docker_cmd,
                    environment, printed, execed, host_paths, reserved_ports,
                    fn_in, fn_out >>

(***************************************************************************)
(* Image resolution: build_and_push_docker_image, --image, or the image    *)
(* of the deployment, pulled.                                              *)
(***************************************************************************)

\* build_and_push_docker_image, lines 401-403 and 413, with DOCKER_TAG unset.
docker_tag == DEFAULT_SPARK_DOCKER_IMAGE_PREFIX \o "-" \o USERNAME
build_docker_url == DEFAULT_SPARK_DOCKER_REGISTRY \o "/" \o docker_tag

\* The checks of the exit codes.
cook_failed(cook_return) == cook_return # 0

tag_failed_unchecked(retcode) == FALSE

tag_failed(retcode) == retcode # 0

push_failed(retcode) == retcode # 0

pull_failed_positive_only(retcode) == retcode > 0

pull_failed(retcode) == retcode # 0

\* build_and_push_docker_image, lines 394-399.
MakefileRespondsTo(i) ==
    /\ pc[i] = "resolve_image"
    /\ args[i].build
    /\ \E responds \in BOOLEAN :
         /\ CallRet(i, "makefile_responds_to", IF responds THEN 0 ELSE 1)
         /\ IF responds THEN Goto(i, "cook_image") /\ UNCHANGED stderr
            ELSE /\ Return(i, 1)
                 /\ Stderr(i, "A local Makefile with a 'cook-image' target is required for --build")
    /\ UNCHANGED << args, warned, system_volumes, docker_url, volumes,
                    spark_ui_port, container_name, spark_conf_str, docker_cmd,
                    environment, printed, execed, host_paths, reserved_ports,
                    fn_in, fn_out >>

\* build_and_push_docker_image, lines 405-411.
CookImage(i) ==
    /\ pc[i] = "cook_image"
    /\ \E cook_return \in Retcodes :
         /\ CallRet(i, "paasta_cook_image", cook_return)
         /\ IF cook_failed(cook_return) THEN Return(i, 1) ELSE Goto(i, "docker_tag")
    /\ UNCHANGED stderr
    /\ UNCHANGED << args, warned, system_volumes, docker_url, volumes,
                    spark_ui_port, container_name, spark_conf_str, docker_cmd,
                    environment, printed, execed, host_paths, reserved_ports,
                    fn_in, fn_out >>

\* build_and_push_docker_image, lines 413-418.
DockerTag(i) ==
    /\ pc[i] = "docker_tag"
    /\ \E retcode \in Retcodes :
         /\ CallRet(i, "docker tag", retcode)
         /\ IF tag_failed(retcode) THEN Return(i, 1) ELSE Goto(i, "docker_push")
    /\ UNCHANGED stderr
    /\ UNCHANGED << args, warned, system_volumes, docker_url, volumes,
                    spark_ui_port, container_name, spark_conf_str, docker_cmd,
                    environment, printed, execed, host_paths, reserved_ports,
                    fn_in, fn_out >>

\* build_and_push_docker_image, lines 420-426, and the return to line 491.
DockerPush(i) ==
    /\ pc[i] = "docker_push"
    /\ \E retcode \in Retcodes :
         /\ CallRet(i, "docker push", retcode)
         /\ IF push_failed(retcode)
            THEN Return(i, 1) /\ UNCHANGED docker_url
            ELSE /\ Goto(i, "configure")
                 /\ docker_url' = [docker_url EXCEPT ![i] = build_docker_url]
    /\ UNCHANGED stderr
    /\ UNCHANGED << args, warned, system_volumes, volumes,
                    spark_ui_port, container_name, spark_conf_str, docker_cmd,
                    environment, printed, execed, host_paths, reserved_ports,
                    fn_in, fn_out >>

\* paasta_spark_run, lines 493-494.
UseImage(i) ==
    /\ pc[i] = "resolve_image"
    /\ ~args[i].build
    /\ Truthy(args[i].image)
    /\ docker_url' = [docker_url EXCEPT ![i] = args[i].image]
    /\ Goto(i, "configure")
    /\ UNCHANGED stderr
    /\ UNCHANGED << args, calls, warned, system_volumes, volumes,
                    spark_ui_port, container_name, spark_conf_str, docker_cmd,
                    environment, printed, execed, host_paths, reserved_ports,
                    fn_in, fn_out >>

\* paasta_spark_run, lines 496-510.
GetDockerUrl(i) ==
    /\ pc[i] = "resolve_image"
    /\ ~args[i].build
    /\ ~Truthy(args[i].image)
    /\ Call(i, "get_docker_url")
    /\ \E url \in DeployedImages \cup {"NoDockerImageError"} :
         IF url = "NoDockerImageError"
         THEN /\ Return(i, 1)
              /\ Stderr(i, "Error: No sha has been marked for deployment")
              /\ UNCHANGED docker_url
         ELSE /\ Goto(i, "docker_pull")
              /\ Stderr(i, "Please wait while the image (" \o url
                              \o ") is pulled (times out after 5m)...")
              /\ docker_url' = [docker_url EXCEPT ![i] = url]
    /\ UNCHANGED << args, warned, system_volumes, volumes,
                    spark_ui_port, container_name, spark_conf_str, docker_cmd,
                    environment, printed, execed, host_paths, reserved_ports,
                    fn_in, fn_out >>

\* paasta_spark_run, lines 511-521: the pull, with its 5 minute timeout.
DockerPull(i) ==
    /\ pc[i] = "docker_pull"
    /\ \E retcode \in Retcodes :
         /\ CallRet(i, "docker pull", retcode)
         /\ IF pull_failed(retcode)
            THEN /\ Return(i, 1)
                 /\ Stderr(i, "\nPull failed. Are you authorized to run docker commands?")
            ELSE Goto(i, "configure") /\ UNCHANGED stderr
    /\ UNCHANGED << args, warned, system_volumes, docker_url, volumes,
                    spark_ui_port, container_name, spark_conf_str, docker_cmd,
                    environment, printed, execed, host_paths, reserved_ports,
                    fn_in, fn_out >>

(***************************************************************************)
(* configure_and_run_docker_container.                                     *)
(***************************************************************************)

\* '%s:%s:%s' % (hostPath, containerPath, mode.lower()), line 322.
VolumeString(volume) ==
    volume.hostPath \o ":" \o volume.containerPath \o ":" \o Lower(volume.mode)

RECURSIVE existing_volumes_unchecked(_, _)
existing_volumes_unchecked(declared, paths) ==
    IF Len(declared) = 0 THEN << >>
    ELSE << VolumeString(Head(declared)) >>
         \o existing_volumes_unchecked(Tail(declared), paths)

\* The loop of lines 319-328: the bindings kept, given os.path.exists.
RECURSIVE existing_volumes(_, _)
existing_volumes(declared, paths) ==
    IF Len(declared) = 0 THEN << >>
    ELSE (IF Head(declared).hostPath \in paths
          THEN << VolumeString(Head(declared)) >> ELSE << >>)
         \o existing_volumes(Tail(declared), paths)

\* The host paths the loop prints a warning for.
RECURSIVE skipped_volumes(_, _)
skipped_volumes(declared, paths) ==
    IF Len(declared) = 0 THEN << >>
    ELSE (IF Head(declared).hostPath \in paths
          THEN << >> ELSE << Head(declared).hostPath >>)
         \o skipped_volumes(Tail(declared), paths)

\* The Spark client specific volumes, lines 343-345.
client_volumes(work_dir) ==
    << work_dir \o ":rw", "/etc/passwd:/etc/passwd:ro", "/etc/group:/etc/group:ro" >>

\* pick_random_port: the ports a collision-checked reservation may return.
pick_random_port(reserved) == Ports \ reserved

make_container_name_without_port(username, port) == "paasta_spark_run_" \o username

\* 'paasta_spark_run_%s_%s' % (get_username(), spark_ui_port), line 331.
make_container_name(username, port) ==
    "paasta_spark_run_" \o username \o "_" \o FormatD(port)

\* Lines 319-331: the declared volumes that exist, the port, the name.
Configure(i) ==
    /\ pc[i] = "configure"
    /\ LET declared == get_volumes(system_volumes[i]) IN
       /\ volumes' = [volumes EXCEPT ![i] = existing_volumes(declared, host_paths)]
       /\ warned' = [warned EXCEPT ![i] = skipped_volumes(declared, host_paths)]
    /\ \E port \in pick_random_port(reserved_ports) :
         /\ reserved_ports' = reserved_ports \cup {port}
         /\ spark_ui_port' = [spark_ui_port EXCEPT ![i] = Some(port)]
         /\ container_name' = [container_name EXCEPT ![i] =
                                  make_container_name(USERNAME, port)]
    /\ Call(i, "pick_random_port")
    /\ Goto(i, "get_spark_conf_str")
    /\ UNCHANGED stderr
    /\ UNCHANGED << args, system_volumes, docker_url, spark_conf_str, docker_cmd,
                    environment, printed, execed, host_paths, fn_in, fn_out >>

\* Lines 333-340, get_spark_conf_str: the leader query, the read of the
\* default secret file when --mesos-secret is not given, the string.
GetSparkConfStr(i) ==
    /\ pc[i] = "get_spark_conf_str"
    /\ \E leader \in MesosLeaders, secret_file \in SecretFileContents \cup {"IOError"} :
         LET r == get_spark_conf_str_or_exit(args[i], container_name[i],
                      spark_ui_port[i][1], docker_url[i], volumes[i],
                      leader, secret_file)
         IN
         /\ calls' = [calls EXCEPT ![i] =
                @ \o << [name |-> "find_mesos_leader", retcode |-> 0] >>
                  \o (IF reads_secret_file(args[i])
                      THEN << [name |-> "open_secret_file", retcode |-> 0] >>
                      ELSE << >>)]
         /\ IF r.exit # NoneInt
            THEN /\ ReturnReleasing(i, r.exit[1])
                 /\ Stderr(i, "Cannot load mesos secret from "
                                 \o DEFAULT_SPARK_MESOS_SECRET_FILE)
                 /\ UNCHANGED spark_conf_str
            ELSE /\ Goto(i, "assemble")
                 /\ UNCHANGED << reserved_ports, stderr >>
                 /\ spark_conf_str' = [spark_conf_str EXCEPT ![i] = r.value]
    /\ UNCHANGED << args, warned, system_volumes, docker_url, volumes,
                    spark_ui_port, container_name, docker_cmd,
                    environment, printed, execed, host_paths, fn_in, fn_out >>

\* The message of line 353.
NoCommandMessage == "A command is required, pyspark, spark-shell, spark-submit or jupyter"

\* Lines 342-376: the client volumes, the command, the environment.
Assemble(i) ==
    /\ pc[i] = "assemble"
    /\ volumes' = [volumes EXCEPT ![i] = @ \o client_volumes(args[i].work_dir)]
    /\ \E instance_cmd \in InstanceCmds :
         LET cmd == IF args[i].cmd = None THEN instance_cmd ELSE args[i].cmd IN
         IF cmd = None
         THEN /\ ReturnReleasing(i, 1)
              /\ Stderr(i, NoCommandMessage)
              /\ UNCHANGED << docker_cmd, environment, calls >>
         ELSE /\ docker_cmd' = [docker_cmd EXCEPT ![i] =
                     rewrite_docker_cmd(cmd, spark_conf_str[i], args[i].work_dir)]
              /\ environment' = [environment EXCEPT ![i] =
                     DictUpdate(InstanceEnv,
                                get_spark_env(args[i], spark_conf_str[i], Credentials))]
              /\ Call(i, "get_credentials")
              /\ Goto(i, "run_docker_container")
              /\ UNCHANGED << reserved_ports, stderr >>
    /\ UNCHANGED << args, warned, system_volumes, docker_url,
                    spark_ui_port, container_name, spark_conf_str,
                    printed, execed, host_paths, fn_in, fn_out >>

(***************************************************************************)
(* run_docker_container: print the argument list, or replace the process.  *)
(***************************************************************************)

\* os.execlp(file, *args): the program looked up and the argument vector.
execlp_without_arg0(file, argv) == [file |-> file, argv |-> Tail(argv)]

execlp(file, argv) == [file |-> file, argv |-> argv]

RunDockerContainer(i) ==
    /\ pc[i] = "run_docker_container"
    /\ LET docker_run_cmd == get_docker_run_cmd(container_name[i], volumes[i],
                                 environment[i], docker_url[i], docker_cmd[i])
       IN
       IF args[i].dry_run
       THEN /\ printed' = [printed EXCEPT ![i] = json_dumps(docker_run_cmd)]
            /\ ReturnReleasing(i, 0)
            /\ UNCHANGED << execed, calls >>
       ELSE /\ execed' = [execed EXCEPT ![i] =
                   << execlp("paasta_docker_wrapper", docker_run_cmd) >>]
            /\ Call(i, "execlp")
            /\ Goto(i, "replaced")
            /\ UNCHANGED << printed, reserved_ports >>
    /\ UNCHANGED << args, stderr, warned, system_volumes, docker_url, volumes,
                    spark_ui_port, container_name, spark_conf_str, docker_cmd,
                    environment, host_paths, fn_in, fn_out >>

Next ==
    \E i \in Invocations :
        \/ ValidateWorkDir(i)
        \/ LoadSystemPaastaConfig(i)
        \/ GetInstanceConfig(i)
        \/ MakefileRespondsTo(i)
        \/ CookImage(i)
        \/ DockerTag(i)
        \/ DockerPush(i)
        \/ UseImage(i)
        \/ GetDockerUrl(i)
        \/ DockerPull(i)
        \/ Configure(i)
        \/ GetSparkConfStr(i)
        \/ Assemble(i)
        \/ RunDockerContainer(i)

Spec == Init /\ [][Next]_vars

SpecConcurrent == InitConcurrent /\ [][Next]_vars

(***************************************************************************)
(* The pure functions on their own: SpecConf applies get_spark_conf_str    *)
(* and SpecCmd the command rewrite, to inputs drawn from bounded sets.     *)
(***************************************************************************)

\* No invocation is launched while a function is applied on its own.
InitIdle == InitLaunched({}, {DefaultArgs}, {IdentityPaths})

\* The values of --driver-max-result-size, --driver-memory, --driver-cores.
MaxDriverSetting == 1
DriverSettings == {NoneInt, Some(8)} \cup {Some(n) : n \in 0..MaxDriverSetting}

\* (max_cores, executor_memory, executor_cores): the defaults and another.
Sizings == { <<4, 4, 2>>, <<16, 8, 4>> }

ConfArgs ==
    { [DefaultArgs EXCEPT !.build = m[1], !.image = m[2], !.jars = j,
                          !.mesos_secret = s,
                          !.max_cores = z[1], !.executor_memory = z[2],
                          !.executor_cores = z[3],
                          !.driver_max_result_size = r, !.driver_memory = dm,
                          !.driver_cores = dc] :
        m \in ImageModes, j \in {None, "a.jar,b.jar"}, s \in {None, "s3cret"},
        z \in Sizings, r \in DriverSettings, dm \in DriverSettings,
        dc \in DriverSettings }

ConfInputs ==
    [ args : ConfArgs,
      container_name : {"paasta_spark_run_bob_33000"},
      spark_ui_port : {FirstPort},
      docker_img : {"img:1"},
      volumes : { << >>, << "/nail/srv:/nail/srv:ro", "/nail/tmp:/tmp:rw" >> },
      leader : MesosLeaders,
      secret_file : SecretFileContents \cup {"IOError"} ]

InitConf ==
    /\ InitIdle
    /\ fn_in \in ConfInputs
    /\ fn_out = << >>

ApplyGetSparkConfStr ==
    /\ fn_out = << >>
    /\ fn_in \in ConfInputs
    /\ fn_out' = << get_spark_conf_str_or_exit(fn_in.args, fn_in.container_name,
                        fn_in.spark_ui_port, fn_in.docker_img, fn_in.volumes,
                        fn_in.leader, fn_in.secret_file) >>
    /\ UNCHANGED << args, pc, exit_status, calls, stderr, warned, system_volumes,
                    docker_url, volumes, spark_ui_port, container_name,
                    spark_conf_str, docker_cmd, environment, printed, execed,
                    host_paths, reserved_ports, fn_in >>

SpecConf == InitConf /\ [][ApplyGetSparkConfStr]_vars

\* Commands: the four run modes, with and without trailing arguments, and
\* other literals.
CmdLiterals ==
    { "jupyter", "pyspark", "spark-shell", "spark-submit",
      "spark-submit myjob.py --foo", "spark-submit --class Main app.jar \"a b\"",
      "spark-submitter x", "pyspark --foo", "spark-shell -i x.scala",
      "jupyter notebook", "echo hi", "python job.py", "" }

ConfStrings ==
    { "--conf spark.cores.max=4",
      "--conf spark.app.name=paasta_spark_run_bob_33000 --conf spark.ui.port=33000",
      "--conf spark.mesos.secret=filesecret\n --conf spark.mesos.constraints=pool:default" }

CmdInputs ==
    [ docker_cmd : CmdLiterals,
      spark_conf_str : ConfStrings,
      work_dir : {"/a:/b", "/home/bob:/spark_driver"} ]

InitCmd ==
    /\ InitIdle
    /\ fn_in \in CmdInputs
    /\ fn_out = << >>

ApplyRewriteDockerCmd ==
    /\ fn_out = << >>
    /\ fn_in \in CmdInputs
    /\ fn_out' = << rewrite_docker_cmd(fn_in.docker_cmd, fn_in.spark_conf_str,
                                       fn_in.work_dir) >>
    /\ UNCHANGED << args, pc, exit_status, calls, stderr, warned, system_volumes,
                    docker_url, volumes, spark_ui_port, container_name,
                    spark_conf_str, docker_cmd, environment, printed, execed,
                    host_paths, reserved_ports, fn_in >>

SpecCmd == InitCmd /\ [][ApplyRewriteDockerCmd]_vars

(***************************************************************************)
(* secret_tools: secret references and the signatures of secrets.          *)
(***************************************************************************)

\* The characters of a string, as a set.
Chars(s) == {CharAt(s, i) : i \in 1..Len(s)}

\* The character class [A-Za-z0-9_-] of SECRET_REGEX.
TokenClass ==
    Chars("ABCDEFGHIJKLMNOPQRSTUVWXYZabcdefghijklmnopqrstuvwxyz0123456789_-")

\* The literal SECRET\( that follows ^ in SECRET_REGEX.
SecretOpen == "SECRET("

\* Where $ matches without re.MULTILINE: at the end of the string, and just
\* before a newline that is the last character of the string.
DollarPositions(s) ==
    {Len(s)} \cup (IF Len(s) > 0 /\ CharAt(s, Len(s)) = "\n" THEN {Len(s) - 1} ELSE {})

\* pattern.match(s) of SECRET_REGEX: the position after which $ matched, as
\* a set that is empty when there is no match.
SECRET_REGEX_match(s) ==
    { e \in DollarPositions(s) :
        /\ e >= Len(SecretOpen) + 1
        /\ SubSeq(s, 1, Len(SecretOpen)) = SecretOpen
        /\ CharAt(s, e) = ")"
        /\ \A k \in (Len(SecretOpen) + 1)..(e - 1) : CharAt(s, k) \in TokenClass }

is_secret_ref(env_var_val) == SECRET_REGEX_match(env_var_val) # {}

\* Candidate references: a prefix, an opening, a token, a closing, a suffix.
RefPrefixes == {"", "x", " ", "\n"}
RefOpenings == {"SECRET(", "secret(", "SECRET", "SECRET[("}
RefTokens == {"", "a", "A_b-9", "a b", "a.b", "a)", "a(b", "a\n"}
RefClosings == {")", "", "))"}
RefSuffixes == {"", "x", " ", "\n", "\n\n", "\nx"}

RefInputs ==
    { [value |-> p \o o \o t \o c \o x] :
        p \in RefPrefixes, o \in RefOpenings, t \in RefTokens,
        c \in RefClosings, x \in RefSuffixes }

InitSecretRef ==
    /\ InitIdle
    /\ fn_in \in RefInputs
    /\ fn_out = << >>

ApplyIsSecretRef ==
    /\ fn_out = << >>
    /\ fn_in \in RefInputs
    /\ fn_out' = << is_secret_ref(fn_in.value) >>
    /\ UNCHANGED << args, pc, exit_status, calls, stderr, warned, system_volumes,
                    docker_url, volumes, spark_ui_port, container_name,
                    spark_conf_str, docker_cmd, environment, printed, execed,
                    host_paths, reserved_ports, fn_in >>

SpecSecretRef == InitSecretRef /\ [][ApplyIsSecretRef]_vars

(***************************************************************************)
(* json.load: a JSON document read into a value. A value is a record with  *)
(* its type t, the text str of a string or number, and the items of an     *)
(* array or object (for an object, each item has its key).                 *)
(***************************************************************************)

JValue(t, str, items) == [t |-> t, str |-> str, items |-> items]
JNull == JValue("null", "", << >>)
JItem(key, value) == [key |-> key, value |-> value]

JsonWhitespace == {" ", "\n", "\t", "\r"}

\* The first index from i on that does not hold a character of the set;
\* Len(doc) + 1 when there is none.
SkipChars(doc, i, set) ==
    LET stops == {k \in i..Len(doc) : CharAt(doc, k) \notin set} IN
    IF stops = {} THEN Len(doc) + 1 ELSE CHOOSE k \in stops : \A j \in stops : k <= j

SkipWhitespace(doc, i) == SkipChars(doc, i, JsonWhitespace)

JsonDigits == Chars("0123456789")

\* The character at i, or the empty string past the end of the document.
JsonAt(doc, i) == IF i \in 1..Len(doc) THEN CharAt(doc, i) ELSE ""

\* doc[i..j], cut at the end of the document.
JsonSlice(doc, i, j) == SubSeq(doc, i, IF j > Len(doc) THEN Len(doc) ELSE j)

JsonFail == [ok |-> FALSE, value |-> JNull, next |-> 0]
JsonOk(value, next) == [ok |-> TRUE, value |-> value, next |-> next]

\* A string literal whose opening quote is at i.
JsonParseString(doc, i) ==
    LET closing == {q \in JsonQuotes(doc) : q > i} IN
    IF closing = {} THEN JsonFail
    ELSE LET q == CHOOSE c \in closing : \A d \in closing : c <= d IN
         JsonOk(JValue("string", JsonUnescapeRange(doc, i + 1, q - 1), << >>), q + 1)

\* A number that starts at i: -? int frac? exp?
JsonParseNumber(doc, i) ==
    LET int == IF JsonAt(doc, i) = "-" THEN i + 1 ELSE i
        intEnd == IF JsonAt(doc, int) = "0" THEN int + 1
                  ELSE SkipChars(doc, int, JsonDigits)
        fracEnd == IF JsonAt(doc, intEnd) = "."
                      /\ SkipChars(doc, intEnd + 1, JsonDigits) > intEnd + 1
                   THEN SkipChars(doc, intEnd + 1, JsonDigits) ELSE intEnd
        sign == IF JsonAt(doc, fracEnd + 1) \in {"+", "-"} THEN fracEnd + 2
                ELSE fracEnd + 1
        expEnd == IF JsonAt(doc, fracEnd) \in {"e", "E"}
                     /\ SkipChars(doc, sign, JsonDigits) > sign
                  THEN SkipChars(doc, sign, JsonDigits) ELSE fracEnd
    IN
    IF intEnd = int THEN JsonFail
    ELSE JsonOk(JValue("number", SubSeq(doc, i, expEnd - 1), << >>), expEnd)

JsonParseLiteral(doc, i) ==
    IF JsonSlice(doc, i, i + 3) = "null" THEN JsonOk(JNull, i + 4)
    ELSE IF JsonSlice(doc, i, i + 3) = "true" THEN JsonOk(JValue("bool", "true", << >>), i + 4)
    ELSE IF JsonSlice(doc, i, i + 4) = "false" THEN JsonOk(JValue("bool", "false", << >>), i + 5)
    ELSE JsonFail

\* One operator parses in three modes, so that it is its only callee:
\* "value" is the value that starts at or after from, whitespace skipped;
\* "members" is the rest of an object after its brace or after a comma,
\* and "items" the rest of an array, seen holding what was already read.
RECURSIVE JsonParse(_, _, _, _)
JsonParse(doc, from, mode, seen) ==
    LET i == SkipWhitespace(doc, from)
        c == JsonAt(doc, i)
    IN
    IF mode = "value"
    THEN IF i > Len(doc) THEN JsonFail
         ELSE IF c = "\"" THEN JsonParseString(doc, i)
         ELSE IF c = "{" THEN JsonParse(doc, i + 1, "members", << >>)
         ELSE IF c = "[" THEN JsonParse(doc, i + 1, "items", << >>)
         ELSE IF c \in JsonDigits \cup {"-"} THEN JsonParseNumber(doc, i)
         ELSE JsonParseLiteral(doc, i)
    ELSE IF mode = "members"
    THEN IF seen = << >> /\ c = "}" THEN JsonOk(JValue("object", "", seen), i + 1)
         ELSE IF c # "\"" THEN JsonFail
         ELSE LET key == JsonParseString(doc, i)
                  colon == SkipWhitespace(doc, key.next)
                  value == JsonParse(doc, colon + 1, "value", << >>)
                  after == SkipWhitespace(doc, value.next)
                  members == Append(seen, JItem(key.value.str, value.value))
              IN
              IF ~key.ok \/ JsonAt(doc, colon) # ":" THEN JsonFail
              ELSE IF ~value.ok THEN JsonFail
              ELSE IF JsonAt(doc, after) = "}"
              THEN JsonOk(JValue("object", "", members), after + 1)
              ELSE IF JsonAt(doc, after) = ","
              THEN JsonParse(doc, after + 1, "members", members)
              ELSE JsonFail
    ELSE IF seen = << >> /\ c = "]" THEN JsonOk(JValue("array", "", seen), i + 1)
         ELSE LET value == JsonParse(doc, i, "value", << >>)
                  after == SkipWhitespace(doc, value.next)
                  items == Append(seen, JItem("", value.value))
              IN
              IF ~value.ok THEN JsonFail
              ELSE IF JsonAt(doc, after) = "]"
              THEN JsonOk(JValue("array", "", items), after + 1)
              ELSE IF JsonAt(doc, after) = ","
              THEN JsonParse(doc, after + 1, "items", items)
              ELSE JsonFail

JsonParseValue(doc, from) == JsonParse(doc, from, "value", << >>)

\* json.load: one value and nothing but whitespace after it, else
\* JSONDecodeError (ok is FALSE).
json_load(doc) ==
    LET parsed == JsonParseValue(doc, 1) IN
    IF parsed.ok /\ SkipWhitespace(doc, parsed.next) = Len(doc) + 1 THEN parsed
    ELSE JsonFail

\* value[key] for a string key: the last member with that key of a dict,
\* KeyError when the dict has none, TypeError for anything but a dict.
Subscript(value, key) ==
    LET hits == {n \in 1..Len(value.items) : value.items[n].key = key} IN
    IF value.t # "object" THEN [raised |-> "TypeError", value |-> JNull]
    ELSE IF hits = {} THEN [raised |-> "KeyError", value |-> JNull]
    ELSE [raised |-> None,
          value |-> value.items[CHOOSE n \in hits : \A m \in hits : n >= m].value]

(***************************************************************************)
(* get_hmac_for_secret: the signature of a secret in one environment.      *)
(***************************************************************************)

\* env_var_val.split('(')[1][:-1]
get_secret_name_from_ref(env_var_val) ==
    LET rest == Split(env_var_val, "(")[2] IN SubSeq(rest, 1, Len(rest) - 1)

\* os.path.join of two components.
path_join(a, b) ==
    IF isabs(b) THEN b
    ELSE IF a = "" \/ CharAt(a, Len(a)) = "/" THEN a \o b
    ELSE a \o "/" \o b

secret_path(soa_dir, service, secret_name) ==
    path_join(path_join(path_join(soa_dir, service), "secrets"), secret_name \o ".json")

\* What a call of the function does: the exception that leaves it (None
\* when it returns), the value it returns (<< >> for None) and the line it
\* prints.
Raises(exception) == [raised |-> exception, value |-> << >>, printed |-> None]
Returns(value, message) ==
    [raised |-> None,
     value |-> IF value = JNull THEN << >> ELSE << value >>,
     printed |-> message]

\* The one element of a singleton set: The({e(x) : x \in {v}}) is e with x
\* bound to the value of v, evaluated once.
The(S) == CHOOSE r \in S : TRUE

\* Line 47: secret_file['environments'][vault_environment]['signature'],
\* the first subscript that raises ending the lookup.
lookup_signature(secret_file, vault_environment) ==
    The({ IF by_environment.raised # None THEN by_environment
          ELSE The({ IF entry.raised # None THEN entry
                     ELSE Subscript(entry.value, "signature") :
                     entry \in {Subscript(by_environment.value, vault_environment)} }) :
          by_environment \in {Subscript(secret_file, "environments")} })

\* Lines 45-51 and 55-57: the text of the opened file is loaded and looked
\* up; KeyError and JSONDecodeError are caught, anything else is not.
load_signature(text, path, vault_environment) ==
    The({ IF ~secret_file.ok
          THEN Returns(JNull, "Failed to deserialise json secret at " \o path)
          ELSE The({ IF lookup.raised = "KeyError"
                     THEN Returns(JNull, "Failed to get secret signature at environments:"
                                             \o vault_environment \o ":signature in json file")
                     ELSE IF lookup.raised # None THEN Raises(lookup.raised)
                     ELSE Returns(lookup.value, None) :
                     lookup \in {lookup_signature(secret_file.value, vault_environment)} }) :
          secret_file \in {json_load(text)} })

\* Lines 37-57; files maps the path of each file that can be opened to its
\* text, and opening any other path is IOError.
get_hmac_for_secret(env_var_val, service, soa_dir, vault_environment, files) ==
    The({ IF path \notin DOMAIN files
          THEN Returns(JNull, "Failed to open json secret at " \o path)
          ELSE load_signature(files[path], path, vault_environment) :
          path \in {secret_path(soa_dir, service, get_secret_name_from_ref(env_var_val))} })

\* The texts a secret file can hold: with a signature for each environment
\* or for one, without the keys, not JSON, and JSON of another shape.
SignedDocs ==
    { "{\"environments\": {\"dev\": {\"signature\": \"abc123\"}, \"prod\": {\"signature\": \"def456\"}}}",
      "{\n  \"environments\": {\n    \"dev\": {\"ciphertext\": \"x\", \"signature\": \"abc123\"}\n  }\n}\n" }
KeylessDocs ==
    { "{}", "{\"environments\": {}}", "{\"environments\": {\"stage\": {\"signature\": \"0\"}}}" }
UnsignedDocs ==
    { "{\"environments\": {\"dev\": {}, \"prod\": {\"ciphertext\": \"x\"}}}" }
InvalidDocs ==
    { "", "{", "{\"environments\": ", "not json", "{'environments': {}}",
      "{\"environments\": {},}", "{\"environments\": {}} x" }
MisshapenDocs ==
    { "[]", "null", "\"abc\"", "3", "{\"environments\": null}",
      "{\"environments\": []}",
      "{\"environments\": {\"dev\": \"abc123\", \"prod\": null}}" }
SecretDocs == SignedDocs \cup KeylessDocs \cup UnsignedDocs \cup InvalidDocs \cup MisshapenDocs

SecretService == "svc"
SoaDirs == {"/soa", "/soa/"}
VaultEnvironments == {"dev", "prod"}
SecretRefs == {"SECRET(a)", "SECRET(my-secret_1)", "SECRET()"}

\* The secret files of the service: none, or one file and its text.
SecretFiles ==
    { << >> } \cup
    { [path \in {"/soa/svc/secrets/" \o name \o ".json"} |-> text] :
        name \in {"a", "my-secret_1"}, text \in SecretDocs }

HmacInputs ==
    [ env_var_val : SecretRefs,
      service : {SecretService},
      soa_dir : SoaDirs,
      vault_environment : VaultEnvironments,
      files : SecretFiles ]

InitHmac ==
    /\ InitIdle
    /\ fn_in \in HmacInputs
    /\ fn_out = << >>

ApplyGetHmacForSecret ==
    /\ fn_out = << >>
    /\ fn_in \in HmacInputs
    /\ fn_out' = << get_hmac_for_secret(fn_in.env_var_val, fn_in.service,
                        fn_in.soa_dir, fn_in.vault_environment, fn_in.files) >>
    /\ UNCHANGED << args, pc, exit_status, calls, stderr, warned, system_volumes,
                    docker_url, volumes, spark_ui_port, container_name,
                    spark_conf_str, docker_cmd, environment, printed, execed,
                    host_paths, reserved_ports, fn_in >>

SpecHmac == InitHmac /\ [][ApplyGetHmacForSecret]_vars

(***************************************************************************)
(* Properties.                                                             *)
(***************************************************************************)

Launched(i) == pc[i] # "not_started"
Exited(i, n) == pc[i] = "exited" /\ exit_status[i] = Some(n)

CallNames(i) == [n \in 1..Len(calls[i]) |-> calls[i][n].name]
Called(i, name) == \E n \in 1..Len(calls[i]) : calls[i][n].name = name
TimesCalled(i, name) == Cardinality({n \in 1..Len(calls[i]) : calls[i][n].name = name})
Returned(i, name, retcode) ==
    \E n \in 1..Len(calls[i]) : calls[i][n].name = name /\ calls[i][n].retcode = retcode

\* The launch stage, configure_and_run_docker_container, has been entered.
LaunchReached(i) ==
    \/ pc[i] \in {"configure", "get_spark_conf_str", "assemble",
                  "run_docker_container", "replaced"}
    \/ Called(i, "pick_random_port")

\* A container start: the dry-run print or the exec.
ContainerStarted(i) == printed[i] # None \/ execed[i] # << >>

\* Nothing outside the process has been read, run, reserved or printed.
NoSideEffect(i) ==
    /\ calls[i] = << >>
    /\ docker_url[i] = None
    /\ spark_ui_port[i] = NoneInt
    /\ ~ContainerStarted(i)

\* Two components, both absolute.
WorkDirWellFormed(s) ==
    LET dirs == Split(s, ":") IN
    Len(dirs) = 2 /\ \A n \in 1..Len(dirs) : isabs(dirs[n])

\* C1: an invocation whose work-dir is not two absolute paths joined by ':'
\* never gets past validation: it exits with status 1 and has made no
\* external call, resolved no image, reserved no port and started no
\* container; a well-formed work-dir passes validation with no side effect.
C1_MalformedWorkDirAbortsFirst ==
    \A i \in Invocations :
        Launched(i) =>
            IF WorkDirWellFormed(args[i].work_dir)
            THEN pc[i] = "load_system_paasta_config" =>
                    NoSideEffect(i) /\ exit_status[i] = NoneInt /\ stderr[i] = << >>
            ELSE /\ pc[i] \in {"start", "exited"}
                 /\ pc[i] = "exited" => Exited(i, 1) /\ Len(stderr[i]) = 1
                 /\ NoSideEffect(i)

C1_Witness ==
    \E i \in Invocations :
        /\ args[i].work_dir = "/a:/b:/c"
        /\ Exited(i, 1)
        /\ NoSideEffect(i)

\* C2: an invocation that fails for want of a command exits non-zero and
\* has performed no external side effect: no build, tag, push or pull, no
\* port reservation, no leader query, no read of the secret file, no
\* container start.
FailedForNoCommand(i) ==
    /\ pc[i] = "exited"
    /\ \E n \in 1..Len(stderr[i]) : stderr[i][n] = NoCommandMessage

C2_NoCommandNoSideEffect ==
    \A i \in Invocations :
        FailedForNoCommand(i) =>
            /\ exit_status[i] # Some(0)
            /\ \A name \in {"paasta_cook_image", "docker tag", "docker push",
                            "docker pull", "pick_random_port",
                            "find_mesos_leader", "open_secret_file", "execlp"} :
                   ~Called(i, name)
            /\ ~ContainerStarted(i)

\* The three image paths.
BuildPath(i) == Called(i, "makefile_responds_to")
ExplicitPath(i) ==
    /\ ~BuildPath(i)
    /\ ~Called(i, "get_docker_url")
    /\ docker_url[i] # None
    /\ docker_url[i] = args[i].image
DeploymentPath(i) == Called(i, "get_docker_url")
DeploymentLookupSucceeded(i) ==
    DeploymentPath(i) /\ docker_url[i] \in DeployedImages

\* C3: the launch stage is entered by exactly one of the build, explicit
\* image and deployment paths; docker pull runs exactly when the deployment
\* lookup succeeded, at most once; in that mode the launch stage is entered
\* only after a pull that returned 0, and any other pull result, a timeout
\* included, ends the invocation with status 1.
C3_ImagePathsAndPull ==
    \A i \in Invocations :
        /\ LaunchReached(i) =>
              /\ Cardinality({p \in {"build", "explicit", "deployment"} :
                      \/ p = "build" /\ BuildPath(i)
                      \/ p = "explicit" /\ ExplicitPath(i)
                      \/ p = "deployment" /\ DeploymentPath(i)}) = 1
              /\ DeploymentPath(i) => Returned(i, "docker pull", 0)
        /\ ~(BuildPath(i) /\ DeploymentPath(i))
        /\ Called(i, "docker pull") =>
              DeploymentLookupSucceeded(i) /\ TimesCalled(i, "docker pull") = 1
        /\ (DeploymentLookupSucceeded(i) /\ pc[i] # "docker_pull") =>
              Called(i, "docker pull")
        /\ \A n \in 1..Len(calls[i]) :
              (calls[i][n].name = "docker pull" /\ calls[i][n].retcode # 0) =>
                  Exited(i, 1) /\ ~LaunchReached(i) /\ ~ContainerStarted(i)

C3_Witness ==
    \E i \in Invocations :
        /\ DeploymentPath(i)
        /\ Returned(i, "docker pull", 0)
        /\ ContainerStarted(i)

\* The external steps of build mode, in order.
BuildSteps == << "makefile_responds_to", "paasta_cook_image", "docker tag", "docker push" >>
IsBuildStep(c) == \E n \in 1..Len(BuildSteps) : BuildSteps[n] = c.name
BuildCalls(i) == SelectSeq(calls[i], IsBuildStep)

\* C4: in build mode the capability check, the build, the tag and the push
\* run in that order, each at most once; a step that fails is the last
\* external call of the invocation, which returns 1 without entering the
\* launch stage; the registry-qualified name is the image only when the
\* build, the tag and the push all returned 0.
C4_BuildStepsInOrder ==
    \A i \in Invocations :
        LET steps == BuildCalls(i) IN
        /\ Len(steps) <= Len(BuildSteps)
        /\ \A n \in 1..Len(steps) : steps[n].name = BuildSteps[n]
        /\ Len(steps) > 0 => args[i].build
        /\ \A n \in 1..Len(calls[i]) :
              (IsBuildStep(calls[i][n]) /\ calls[i][n].retcode # 0) =>
                  /\ n = Len(calls[i])
                  /\ Exited(i, 1)
                  /\ ~LaunchReached(i)
                  /\ ~ContainerStarted(i)
                  /\ docker_url[i] = None
        /\ (args[i].build /\ (docker_url[i] # None \/ LaunchReached(i))) =>
              /\ docker_url[i] = build_docker_url
              /\ Len(steps) = Len(BuildSteps)
              /\ \A n \in 1..Len(steps) : steps[n].retcode = 0

C4_Witness ==
    \E i \in Invocations :
        /\ args[i].build
        /\ docker_url[i] = build_docker_url
        /\ ContainerStarted(i)

\* The volume list is final once the client volumes are appended and the
\* command is known: it is what run_docker_container is handed.
VolumesFinal(i) == pc[i] \in {"run_docker_container", "replaced"} \/ ContainerStarted(i)

HostPathOf(binding) == Split(binding, ":")[1]

InList(list, x) == \E n \in 1..Len(list) : list[n] = x

\* C5 as claimed: every entry of the final volume list, the work-dir and
\* identity-file bindings included, has a host path that exists.
C5_EveryFinalVolumeExists ==
    \A i \in Invocations :
        VolumesFinal(i) =>
            \A n \in 1..Len(volumes[i]) : HostPathOf(volumes[i][n]) \in host_paths

\* The lower-case spelling of the declared access modes.
LowerCased(mode) == IF mode = "RO" THEN "ro" ELSE IF mode = "RW" THEN "rw" ELSE mode

\* C5, amended: the final volume list is the declared bindings whose host
\* path exists, each as hostPath:containerPath:mode with the mode in lower
\* case, followed by the work-dir and identity-file bindings, which are
\* appended whether or not their host path exists; a declared binding whose
\* host path does not exist is left out with a warning, and the invocation
\* goes on.
C5_DeclaredVolumesExist ==
    \A i \in Invocations :
        LET declared == get_volumes(system_volumes[i])
            kept == Len(volumes[i]) - 3
            Expected(d) == d.hostPath \o ":" \o d.containerPath \o ":" \o LowerCased(d.mode)
        IN
        /\ VolumesFinal(i) =>
              /\ kept >= 0
              /\ \A n \in 1..kept : HostPathOf(volumes[i][n]) \in host_paths
              /\ SubSeq(volumes[i], kept + 1, kept + 3) =
                    << args[i].work_dir \o ":rw", "/etc/passwd:/etc/passwd:ro",
                       "/etc/group:/etc/group:ro" >>
              /\ \A n \in 1..Len(declared) :
                    /\ declared[n].hostPath \in host_paths <=>
                          InList(SubSeq(volumes[i], 1, kept), Expected(declared[n]))
                    /\ declared[n].hostPath \notin host_paths <=>
                          InList(warned[i], declared[n].hostPath)
        /\ (pc[i] = "get_spark_conf_str" /\ Len(warned[i]) > 0) =>
              exit_status[i] = NoneInt

C5_Witness ==
    \E i \in Invocations :
        /\ ContainerStarted(i)
        /\ Len(warned[i]) > 0
        /\ Len(volumes[i]) > 3
        /\ HostPathOf(args[i].work_dir) \notin host_paths

\* The inputs of run_docker_container.
SameLaunchInputs(i, j) ==
    /\ container_name[i] = container_name[j]
    /\ volumes[i] = volumes[j]
    /\ environment[i] = environment[j]
    /\ docker_url[i] = docker_url[j]
    /\ docker_cmd[i] = docker_cmd[j]

\* C6: a dry run never calls os.execlp and returns 0, and the JSON document
\* it prints decodes to the argument vector that a live run with the same
\* container name, volumes, environment, image and command passes to
\* os.execlp.
C6_DryRunEqualsLive ==
    /\ \A i \in Invocations :
          /\ args[i].dry_run => execed[i] = << >> /\ ~Called(i, "execlp")
          /\ printed[i] # None => args[i].dry_run /\ Exited(i, 0)
          /\ (args[i].dry_run /\ pc[i] = "exited" /\ docker_cmd[i] # None) =>
                printed[i] # None
    /\ \A i, j \in Invocations :
          (printed[i] # None /\ execed[j] # << >> /\ SameLaunchInputs(i, j)) =>
              /\ execed[j][1].file = "paasta_docker_wrapper"
              /\ json_loads(printed[i]) = execed[j][1].argv

C6_Witness ==
    \E i, j \in Invocations :
        /\ printed[i] # None
        /\ execed[j] # << >>
        /\ SameLaunchInputs(i, j)

Running(i) == pc[i] \notin {"not_started", "exited"}

\* C7: two invocations that are running at the same time never hold the
\* same UI port, and so never carry the same container name.
C7_UniquePortAndName ==
    \A i, j \in Invocations :
        (i # j /\ Running(i) /\ Running(j)
             /\ spark_ui_port[i] # NoneInt /\ spark_ui_port[j] # NoneInt) =>
            /\ spark_ui_port[i] # spark_ui_port[j]
            /\ container_name[i] # container_name[j]

C7_Witness ==
    \E i, j \in Invocations :
        /\ i # j
        /\ pc[i] = "replaced" /\ pc[j] = "replaced"
        /\ args[i].service = args[j].service

\* The result of the function applied on its own.
Applied == fn_out # << >>
ConfProduced == Applied /\ fn_out[1].exit = NoneInt

\* The configuration string read back: its space-separated tokens, the
\* key=value token of each entry, and the key of such a token.
ConfTokens(str) == Split(str, " ")
ConfEntries(str) ==
    LET tokens == ConfTokens(str) IN
    [n \in 1..(Len(tokens) \div 2) |-> tokens[2 * n]]
KeyOf(entry) == SubSeq(entry, 1, Find(entry, "=", 1) - 1)
ValueOf(entry) == SubSeq(entry, Find(entry, "=", 1) + 1, Len(entry))

\* The keys in the order the entries are to be emitted.
KeyOrder ==
    << "spark.app.name", "spark.ui.port", "spark.master", "spark.cores.max",
       "spark.executor.memory", "spark.executor.cores",
       "spark.driver.maxResultSize", "spark.driver.memory", "spark.driver.cores",
       "spark.mesos.executor.docker.image", "spark.mesos.uris", "spark.jars",
       "spark.mesos.principal", "spark.mesos.secret",
       "spark.driver.extraJavaOptions", "spark.mesos.constraints",
       "spark.mesos.executor.docker.volumes" >>
OptionalKeys ==
    { "spark.driver.maxResultSize", "spark.driver.memory", "spark.driver.cores",
      "spark.mesos.uris", "spark.jars" }
IsKey(k) == \E r \in 1..Len(KeyOrder) : KeyOrder[r] = k
Rank(k) == CHOOSE r \in 1..Len(KeyOrder) : KeyOrder[r] = k

\* C8: the configuration string is a sequence of entries '--conf key=value'
\* joined by single spaces, whose keys follow the fixed order (app name, UI
\* port, master, cores.max, executor.memory, executor.cores, the driver
\* settings, image, mesos.uris, jars, principal, secret, extraJavaOptions,
\* constraints, volumes) whichever optional entries are present, every
\* entry that is not optional being present.
C8_EntriesInFixedOrder ==
    ConfProduced =>
        LET str == fn_out[1].value
            tokens == ConfTokens(str)
            entries == ConfEntries(str)
        IN
        /\ Len(tokens) = 2 * Len(entries)
        /\ \A n \in 1..Len(tokens) : tokens[n] # ""
        /\ \A n \in 1..Len(entries) :
              /\ tokens[2 * n - 1] = "--conf"
              /\ Find(entries[n], "=", 1) > 1
              /\ IsKey(KeyOf(entries[n]))
        /\ \A n \in 1..(Len(entries) - 1) :
              Rank(KeyOf(entries[n])) < Rank(KeyOf(entries[n + 1]))
        /\ \A r \in 1..Len(KeyOrder) :
              KeyOrder[r] \notin OptionalKeys =>
                  \E n \in 1..Len(entries) : KeyOf(entries[n]) = KeyOrder[r]

C8_Witness ==
    /\ ConfProduced
    /\ Len(ConfEntries(fn_out[1].value)) = Len(KeyOrder)

\* The entries of a configuration string that carry the key k, and the rest.
EntriesOf(str, k) ==
    SelectSeq(ConfEntries(str), LAMBDA e : KeyOf(e) = k)
EntriesBut(str, k) ==
    SelectSeq(ConfEntries(str), LAMBDA e : KeyOf(e) # k)

\* The string the same inputs give with the optional argument f not supplied.
ConfWithout(f) ==
    LET a == [fn_in.args EXCEPT ![f] = NoneInt] IN
    get_spark_conf_str_or_exit(a, fn_in.container_name, fn_in.spark_ui_port,
        fn_in.docker_img, fn_in.volumes, fn_in.leader, fn_in.secret_file).value

DriverKeys ==
    << [arg |-> "driver_max_result_size", key |-> "spark.driver.maxResultSize", unit |-> "g"],
       [arg |-> "driver_memory", key |-> "spark.driver.memory", unit |-> "g"],
       [arg |-> "driver_cores", key |-> "spark.driver.cores", unit |-> ""] >>

\* C9: each optional driver setting gives exactly one entry for its key
\* when it is supplied, whatever integer is supplied, and none when it is
\* not; supplying it changes no other entry; with the default sizing and no
\* driver setting the string holds exactly one each of spark.cores.max=4,
\* spark.executor.memory=4g and spark.executor.cores=2.
C9_DriverSettingsWhenSupplied ==
    ConfProduced =>
        LET str == fn_out[1].value IN
        /\ \A d \in 1..Len(DriverKeys) :
              LET supplied == fn_in.args[DriverKeys[d].arg] IN
              /\ supplied = NoneInt => Len(EntriesOf(str, DriverKeys[d].key)) = 0
              /\ supplied # NoneInt =>
                    /\ EntriesOf(str, DriverKeys[d].key) =
                          << DriverKeys[d].key \o "=" \o FormatD(supplied[1])
                                \o DriverKeys[d].unit >>
                    /\ EntriesBut(str, DriverKeys[d].key) =
                          ConfEntries(ConfWithout(DriverKeys[d].arg))
        /\ ( /\ fn_in.args.max_cores = 4
             /\ fn_in.args.executor_memory = 4
             /\ fn_in.args.executor_cores = 2
             /\ \A d \in 1..Len(DriverKeys) : fn_in.args[DriverKeys[d].arg] = NoneInt ) =>
              /\ EntriesOf(str, "spark.cores.max") = << "spark.cores.max=4" >>
              /\ EntriesOf(str, "spark.executor.memory") = << "spark.executor.memory=4g" >>
              /\ EntriesOf(str, "spark.executor.cores") = << "spark.executor.cores=2" >>

\* C9 for the values the code tells from "not supplied": the same, for every
\* supplied integer other than 0.
C9_NonZeroDriverSettings ==
    (ConfProduced /\ \A d \in 1..Len(DriverKeys) :
                        fn_in.args[DriverKeys[d].arg] # Some(0))
        => C9_DriverSettingsWhenSupplied

\* s occurs in t.
Contains(t, s) == \E k \in 1..(Len(t) - Len(s) + 1) : SubSeq(t, k, k + Len(s) - 1) = s

\* C10: a command that begins with 'spark-submit' becomes 'spark-submit',
\* a space, the configuration string, and then whatever followed the
\* keyword, unchanged; exactly 'pyspark' or 'spark-shell' gets a space and
\* the configuration string appended; 'jupyter' becomes the notebook
\* invocation, without the configuration string; any other command is
\* passed through as it is.
C10_CommandByRunMode ==
    Applied =>
        LET cmd == fn_in.docker_cmd
            conf == fn_in.spark_conf_str
            out == fn_out[1]
            keyword == "spark-submit"
        IN
        /\ cmd = "jupyter" =>
              /\ out = "jupyter notebook -y --ip=" \o FQDN \o " --notebook-dir="
                          \o Split(fn_in.work_dir, ":")[2]
              /\ ~Contains(out, conf)
        /\ cmd \in {"pyspark", "spark-shell"} => out = cmd \o " " \o conf
        /\ StartsWith(cmd, keyword) =>
              /\ Len(out) = Len(cmd) + 1 + Len(conf)
              /\ SubSeq(out, 1, Len(keyword) + 1) = keyword \o " "
              /\ SubSeq(out, Len(keyword) + 2, Len(keyword) + 1 + Len(conf)) = conf
              /\ SubSeq(out, Len(keyword) + 2 + Len(conf), Len(out)) =
                    SubSeq(cmd, Len(keyword) + 1, Len(cmd))
        /\ cmd = "spark-submit myjob.py --foo" =>
              out = "spark-submit " \o conf \o " myjob.py --foo"
        /\ (cmd \notin {"jupyter", "pyspark", "spark-shell"} /\ ~StartsWith(cmd, keyword)) =>
              out = cmd

C10_Witness ==
    /\ Applied
    /\ fn_in.docker_cmd = "spark-submit myjob.py --foo"
    /\ fn_out[1] = "spark-submit " \o fn_in.spark_conf_str \o " myjob.py --foo"

(***************************************************************************)
(* C11: secret references.                                                 *)
(***************************************************************************)

\* The whole string is SECRET( token ) and nothing else.
ExactSecretRef(s) ==
    /\ Len(s) >= Len(SecretOpen) + 1
    /\ s = SecretOpen \o SubSeq(s, Len(SecretOpen) + 1, Len(s) - 1) \o ")"
    /\ Chars(SubSeq(s, Len(SecretOpen) + 1, Len(s) - 1)) \subseteq TokenClass

\* C11: is_secret_ref returns true if and only if the whole string is
\* exactly SECRET( token ) with a token of letters, digits, underscores and
\* hyphens: any extra character before or after, a trailing newline
\* included, gives false, and every valid token gives true.
C11_ExactMatchOnly ==
    Applied => (fn_out[1] <=> ExactSecretRef(fn_in.value))

\* What the pattern accepts: an exact reference, or an exact reference
\* followed by one newline; nothing else.
C11_ExactUpToFinalNewline ==
    Applied =>
        (fn_out[1] <=>
            \/ ExactSecretRef(fn_in.value)
            \/ \E body \in {SubSeq(fn_in.value, 1, Len(fn_in.value) - 1)} :
                  fn_in.value = body \o "\n" /\ ExactSecretRef(body))

(***************************************************************************)
(* C12: the signature of a secret.                                         *)
(***************************************************************************)

\* The secret file the reference names, and its text when it is there.
HmacPath == "/soa/svc/secrets/" \o SubSeq(fn_in.env_var_val, 8, Len(fn_in.env_var_val) - 1) \o ".json"
HmacFileMissing == HmacPath \notin DOMAIN fn_in.files
HmacFileIn(docs) == ~HmacFileMissing /\ fn_in.files[HmacPath] \in docs

\* The signature each signed text holds for each environment; "" for none.
ExpectedSignature(text, env) ==
    IF env = "dev" THEN "abc123"
    ELSE IF Contains(text, "def456") THEN "def456"
    ELSE ""

HmacEnvironmentAbsent ==
    \/ HmacFileIn(KeylessDocs)
    \/ HmacFileIn(SignedDocs)
          /\ ExpectedSignature(fn_in.files[HmacPath], fn_in.vault_environment) = ""

HmacSigned ==
    /\ HmacFileIn(SignedDocs)
    /\ ExpectedSignature(fn_in.files[HmacPath], fn_in.vault_environment) # ""

\* C12: for a valid reference get_hmac_for_secret never raises; it returns
\* no value when the secret file is missing, when it is not valid JSON and
\* when the environment key is absent, and otherwise the value at
\* environments[environment].signature.
C12_NeverRaises ==
    (Applied /\ ExactSecretRef(fn_in.env_var_val)) =>
        /\ fn_out[1].raised = None
        /\ (HmacFileMissing \/ HmacFileIn(InvalidDocs) \/ HmacEnvironmentAbsent) =>
              fn_out[1].value = << >>
        /\ HmacSigned =>
              fn_out[1].value =
                  << JValue("string",
                            ExpectedSignature(fn_in.files[HmacPath],
                                              fn_in.vault_environment), << >>) >>

\* What the function does: the three cases give no value, each with its
\* own message, and so does a missing signature key; a signed environment
\* gives its signature; a document that is valid JSON but where a level of
\* the lookup is not an object raises TypeError.
C12_RaisesOnlyOnMisshapen ==
    (Applied /\ ExactSecretRef(fn_in.env_var_val)) =>
        /\ fn_out[1].raised = (IF HmacFileIn(MisshapenDocs) THEN "TypeError" ELSE None)
        /\ (HmacFileMissing \/ HmacFileIn(InvalidDocs) \/ HmacEnvironmentAbsent
                \/ HmacFileIn(UnsignedDocs)) =>
              /\ fn_out[1].value = << >>
              /\ fn_out[1].printed # None
              /\ StartsWith(fn_out[1].printed, "Failed to open") <=> HmacFileMissing
              /\ StartsWith(fn_out[1].printed, "Failed to deserialise") <=>
                    HmacFileIn(InvalidDocs)
        /\ HmacSigned =>
              /\ fn_out[1].printed = None
              /\ fn_out[1].value =
                    << JValue("string",
                              ExpectedSignature(fn_in.files[HmacPath],
                                                fn_in.vault_environment), << >>) >>

(***************************************************************************)
(* C13: the volumes entry of the configuration string.                     *)
(***************************************************************************)

ConfComputed(i) == spark_conf_str[i] # None

\* The last entry of the configuration string of invocation i.
LastConfEntry(i) ==
    LET entries == ConfEntries(spark_conf_str[i]) IN entries[Len(entries)]

VolumesKey == "spark.mesos.executor.docker.volumes"

\* hostPath:containerPath:mode with a lower-case mode.
WellFormedBinding(binding) ==
    LET parts == Split(binding, ":") IN
    Len(parts) = 3 /\ parts[1] # "" /\ parts[2] # "" /\ parts[3] \in {"ro", "rw"}

\* C13 as claimed: the last configuration entry is the volumes entry and
\* its comma-joined value holds every binding of the final volume list
\* passed to the container, the work-dir and identity-file bindings
\* included, and nothing else.
C13_VolumesEntryIsFinalList ==
    \A i \in Invocations :
        (ConfComputed(i) /\ VolumesFinal(i)) =>
            /\ KeyOf(LastConfEntry(i)) = VolumesKey
            /\ ValueOf(LastConfEntry(i)) = Join(volumes[i], ",")

\* C13 as the code has it: the last configuration entry is the volumes
\* entry and its value is the comma-joined list of the declared bindings
\* that were kept, each as hostPath:containerPath:mode; the final volume
\* list passed to the container is that list followed by the work-dir
\* read-write binding and the two read-only identity-file bindings, which
\* are appended after the configuration string is built and are not in
\* the entry.
C13_VolumesEntryIsDeclaredList ==
    \A i \in Invocations :
        /\ (ConfComputed(i) /\ pc[i] = "assemble") =>
              /\ KeyOf(LastConfEntry(i)) = VolumesKey
              /\ ValueOf(LastConfEntry(i)) = Join(volumes[i], ",")
        /\ (ConfComputed(i) /\ VolumesFinal(i)) =>
              LET final == volumes[i]
                  kept == SubSeq(final, 1, Len(final) - 3)
              IN
              /\ Len(final) >= 3
              /\ KeyOf(LastConfEntry(i)) = VolumesKey
              /\ ValueOf(LastConfEntry(i)) = Join(kept, ",")
              /\ \A n \in 1..Len(kept) : WellFormedBinding(kept[n])
              /\ SubSeq(final, Len(final) - 2, Len(final)) =
                    << args[i].work_dir \o ":rw", "/etc/passwd:/etc/passwd:ro",
                       "/etc/group:/etc/group:ro" >>
              /\ ~Contains(ValueOf(LastConfEntry(i)), "/etc/passwd")
              /\ ValueOf(LastConfEntry(i)) # Join(final, ",")

C13_Witness ==
    \E i \in Invocations :
        /\ ConfComputed(i)
        /\ execed[i] # << >>
        /\ Len(volumes[i]) = 5
        /\ ValueOf(LastConfEntry(i)) = "/nail/srv:/nail/srv:ro,/nail/tmp:/tmp:rw"
        /\ volumes[i][3] = args[i].work_dir \o ":rw"

====
